---- MODULE Spec2Model ----
(***************************************************************************)
(* Model of gen.py: the CodeAnalyzer syntax-tree visitor and parse_folder, *)
(* the cross-module aggregation with its optional class selection.         *)
(*                                                                         *)
(* A Python str is a sequence of one-character strings, so that the        *)
(* f-string concatenations, str.split('.') and the substring test `a in b` *)
(* are computed rather than assumed.  A dict is a function over its keys;  *)
(* a list is a sequence.                                                   *)
(***************************************************************************)
EXTENDS Integers, Sequences, FiniteSets, TLC

VARIABLES folder, pc, selected_classes, idx, analyzer,
          all_classes, all_funcs, all_inheritance, all_edges,
          all_func_info, all_modules, returned

vars == <<folder, pc, selected_classes, idx, analyzer,
          all_classes, all_funcs, all_inheritance, all_edges,
          all_func_info, all_modules, returned>>

----------------------------------------------------------------------------
(* Python values *)

Dot == "."

\* Python's None: a one-element sequence whose element is no character
None == <<"None">>

\* f"{a}.{b}"
Dotted(a, b) == a \o <<Dot>> \o b

\* d[k] = v
Put(d, k, v) == [x \in (DOMAIN d) \cup {k} |-> IF x = k THEN v ELSE d[x]]

\* d.update(e)
Update(d, e) ==
  [x \in (DOMAIN d) \cup (DOMAIN e) |-> IF x \in DOMAIN e THEN e[x] ELSE d[x]]

\* sub in s, for two strings
Contains(sub, s) ==
  \E i \in 0..(Len(s) - Len(sub)) : SubSeq(s, i + 1, i + Len(sub)) = sub

\* s.split('.')[-1]
RECURSIVE LastSegment(_)
LastSegment(s) ==
  IF s = <<>> THEN <<>>
  ELSE IF s[Len(s)] = Dot THEN <<>>
  ELSE LET before == SubSeq(s, 1, Len(s) - 1)
       IN IF \E i \in DOMAIN before : before[i] = Dot
          THEN LastSegment(before) \o <<s[Len(s)]>>
          ELSE s

\* sep.join(parts)
RECURSIVE Join(_, _)
Join(parts, sep) ==
  IF parts = <<>> THEN <<>>
  ELSE IF Len(parts) = 1 THEN parts[1]
  ELSE parts[1] \o sep \o Join(Tail(parts), sep)

----------------------------------------------------------------------------
(* Syntax-tree nodes, as the ast module builds them *)

Name(id) == [type |-> "Name", id |-> id]
Attribute(value, attr) == [type |-> "Attribute", value |-> value, attr |-> attr]
Call(func, args) == [type |-> "Call", func |-> func, args |-> args]
Subscript(value, slice) == [type |-> "Subscript", value |-> value, slice |-> slice]
Constant(kind, value) == [type |-> "Constant", kind |-> kind, value |-> value]
Expr(value) == [type |-> "Expr", value |-> value]
Pass == [type |-> "Pass"]
If(test, body, orelse) ==
  [type |-> "If", test |-> test, body |-> body, orelse |-> orelse]
FunctionDef(name, args, body) ==
  [type |-> "FunctionDef", name |-> name, args |-> args, body |-> body]
ClassDef(name, bases, body) ==
  [type |-> "ClassDef", name |-> name, bases |-> bases, body |-> body]
Module(body) == [type |-> "Module", body |-> body]

\* ast.iter_child_nodes(n): the child nodes in field order
Children(n) ==
  CASE n.type = "Module" -> n.body
    [] n.type = "ClassDef" -> n.bases \o n.body
    [] n.type = "FunctionDef" -> n.body
    [] n.type = "If" -> <<n.test>> \o n.body \o n.orelse
    [] n.type = "Expr" -> <<n.value>>
    [] n.type = "Call" -> <<n.func>> \o n.args
    [] n.type = "Attribute" -> <<n.value>>
    [] n.type = "Subscript" -> <<n.value, n.slice>>
    [] OTHER -> <<>>

\* ast.walk: breadth-first over a queue of nodes
RECURSIVE Walk(_)
Walk(todo) ==
  IF todo = <<>> THEN <<>>
  ELSE <<Head(todo)>> \o Walk(Tail(todo) \o Children(Head(todo)))

\* ast.get_docstring(node): the body's leading string expression, or None
get_docstring(node) ==
  IF /\ node.body # <<>>
     /\ node.body[1].type = "Expr"
     /\ node.body[1].value.type = "Constant"
     /\ node.body[1].value.kind = "str"
  THEN node.body[1].value.value
  ELSE None

----------------------------------------------------------------------------
(* class CodeAnalyzer(ast.NodeVisitor) *)

CodeAnalyzer(module_name) ==
  [module_name |-> module_name, classes |-> <<>>, standalone_funcs |-> <<>>,
   inheritance |-> <<>>, edges |-> <<>>, func_info |-> <<>>, modules |-> <<>>]

Unknown == <<"u", "n", "k", "n", "o", "w", "n">>

\* a variant that keeps only the innermost attribute of a chain
get_full_attribute_name_shallow(node) ==
  IF node.type = "Name" THEN node.id
  ELSE IF node.type = "Attribute" THEN node.attr
  ELSE Unknown

RECURSIVE get_full_attribute_name(_)
get_full_attribute_name(node) ==
  IF node.type = "Name" THEN node.id
  ELSE IF node.type = "Attribute"
       THEN Dotted(get_full_attribute_name(node.value), node.attr)
       ELSE Unknown

\* the branch of visit_FunctionDef's loop that `continue`s
Skip == <<"continue">>

\* the callee visit_FunctionDef computes for one ast.Call node
Callee(n) ==
  IF n.func.type = "Attribute"
  THEN IF n.func.value.type = "Name"
       THEN Dotted(n.func.value.id, n.func.attr)
       ELSE IF n.func.value.type = "Attribute"
            THEN Dotted(get_full_attribute_name(n.func.value), n.func.attr)
            ELSE n.func.attr
  ELSE IF n.func.type = "Name" THEN n.func.id
  ELSE Skip

NoDocstring ==
  <<"N", "o", " ", "d", "o", "c", "s", "t", "r", "i", "n", "g">>

get_func_info(node) ==
  LET signature == <<"(">> \o Join(node.args, <<",", " ">>) \o <<")">>
      d == get_docstring(node)
      doc == IF d = None \/ d = <<>> THEN NoDocstring ELSE d
  IN node.name \o signature \o <<"\n">> \o doc

IsEdgeCall(n) == n.type = "Call" /\ Callee(n) # Skip

visit_FunctionDef(self, node, parent) ==
  LET name == IF parent = None THEN Dotted(self.module_name, node.name)
              ELSE parent
      s1 == IF parent = None
            THEN [self EXCEPT !.standalone_funcs = Append(@, name),
                              !.func_info = Put(@, name, get_func_info(node))]
            ELSE self
      caller == IF parent # None /\ parent # <<>> THEN parent ELSE name
      calls == SelectSeq(Walk(<<node>>), IsEdgeCall)
      found == [i \in 1..Len(calls) |-> <<caller, Callee(calls[i])>>]
  IN [s1 EXCEPT !.edges = @ \o found]

IsName(n) == n.type = "Name"

\* the loop over node.body in visit_ClassDef
RECURSIVE ClassBody(_, _, _)
ClassBody(self, class_name, body) ==
  IF body = <<>> THEN self
  ELSE LET n == Head(body)
           method_name == Dotted(class_name, n.name)
           s1 == [self EXCEPT
                    !.classes = Put(@, class_name,
                                    Append(self.classes[class_name], method_name)),
                    !.func_info = Put(@, method_name, get_func_info(n))]
       IN IF n.type = "FunctionDef"
          THEN ClassBody(visit_FunctionDef(s1, n, method_name),
                         class_name, Tail(body))
          ELSE ClassBody(self, class_name, Tail(body))

RECURSIVE visit(_, _)
RECURSIVE VisitEach(_, _)

\* NodeVisitor.generic_visit: visit every child node
generic_visit(self, node) == VisitEach(self, Children(node))

visit_ClassDef(self, node) ==
  LET class_name == Dotted(self.module_name, node.name)
      bases == SelectSeq(node.bases, IsName)
      s1 == [self EXCEPT
               !.modules = Put(@, class_name, self.module_name),
               !.inheritance =
                  Put(@, class_name,
                      IF bases # <<>>
                      THEN Dotted(self.module_name, bases[1].id)
                      ELSE None),
               !.classes = Put(@, class_name, <<>>)]
      s2 == ClassBody(s1, class_name, node.body)
  IN generic_visit(s2, node)

\* NodeVisitor.visit: dispatch on the node's class
visit(self, node) ==
  IF node.type = "ClassDef" THEN visit_ClassDef(self, node)
  ELSE IF node.type = "FunctionDef" THEN visit_FunctionDef(self, node, None)
  ELSE generic_visit(self, node)

VisitEach(self, nodes) ==
  IF nodes = <<>> THEN self
  ELSE VisitEach(visit(self, Head(nodes)), Tail(nodes))

----------------------------------------------------------------------------
(* The files under the analysed folder *)

Sep == "/"

\* file.endswith(".py")
EndsWithPy(path) ==
  Len(path) >= 3 /\ SubSeq(path, Len(path) - 2, Len(path)) = <<".", "p", "y">>

\* os.path.splitext(p)[0]: cut the extension of the last path component
Splitext(path) ==
  LET dots == {i \in DOMAIN path :
                 /\ path[i] = Dot
                 /\ \A j \in i..Len(path) : path[j] # Sep
                 /\ i > 1 /\ path[i - 1] # Sep}
  IN IF dots = {} THEN path
     ELSE SubSeq(path, 1, (CHOOSE i \in dots : \A j \in dots : j <= i) - 1)

\* os.path.splitext(os.path.relpath(path, folder))[0].replace(os.sep, ".")
ModuleNameOf(path) ==
  LET stem == Splitext(path)
  IN [i \in 1..Len(stem) |-> IF stem[i] = Sep THEN Dot ELSE stem[i]]

\* what ast.parse gives for a text that is not Python
SyntaxError == [type |-> "SyntaxError"]

\* the try body raises before the analyzer is built
Raises(file) == file.tree.type # "Module"

SourceFile(path, tree) == [path |-> path, tree |-> tree]

\* main.py: class W with method r(self) calling h() and self.u.h()
FileMain ==
  SourceFile(<<"m", ".", "p", "y">>,
    Module(<<
      ClassDef(<<"W">>, <<>>, <<
        FunctionDef(<<"r">>, <<<<"s">>>>, <<
          Expr(Call(Name(<<"h">>), <<>>)),
          Expr(Call(Attribute(Attribute(Name(<<"s">>), <<"u">>), <<"h">>), <<>>))
        >>)
      >>)
    >>))

\* util.py: a documented function h()
FileUtil ==
  SourceFile(<<"u", ".", "p", "y">>,
    Module(<<
      FunctionDef(<<"h">>, <<>>, <<
        Expr(Constant("str", <<"o", "k">>))
      >>)
    >>))

\* v.py: class WB(W) whose method calls g twice, and a function with
\* chained, call-rooted, subscript-rooted and call-of-call targets
FileChains ==
  SourceFile(<<"v", ".", "p", "y">>,
    Module(<<
      ClassDef(<<"W", "B">>, <<Name(<<"W">>)>>, <<
        FunctionDef(<<"r">>, <<<<"s">>, <<"x">>>>, <<
          Expr(Call(Name(<<"g">>), <<>>)),
          Expr(Call(Name(<<"g">>), <<>>))
        >>)
      >>),
      FunctionDef(<<"k">>, <<>>, <<
        Expr(Call(Attribute(Attribute(Attribute(Name(<<"a">>), <<"b">>),
                                      <<"c">>), <<"d">>), <<>>)),
        Expr(Call(Attribute(Attribute(Call(Name(<<"f">>), <<>>), <<"a">>),
                            <<"b">>), <<>>)),
        Expr(Call(Attribute(Subscript(Name(<<"x">>), Constant("int", <<"0">>)),
                            <<"j">>), <<>>)),
        Expr(Call(Call(Name(<<"f">>), <<>>), <<>>))
      >>)
    >>))

\* b.py: a text that does not parse
FileBroken == SourceFile(<<"b", ".", "p", "y">>, SyntaxError)

\* n.txt: not a Python file
FileText == SourceFile(<<"n", ".", "t", "x", "t">>, SyntaxError)

\* d.py: f defined twice (the second under an if), a class with an
\* attribute base and a nested class, and a bare class W
FileDups ==
  SourceFile(<<"d", ".", "p", "y">>,
    Module(<<
      FunctionDef(<<"f">>, <<>>, <<Pass>>),
      If(Name(<<"c">>),
         <<FunctionDef(<<"f">>, <<<<"x">>>>, <<Expr(Call(Name(<<"g">>), <<>>))>>)>>,
         <<>>),
      ClassDef(<<"A">>, <<Attribute(Name(<<"x">>), <<"Y">>), Name(<<"B">>)>>, <<
        ClassDef(<<"W">>, <<>>, <<Pass>>)
      >>)
    >>))

\* m/W.py: module m.W with a function r, whose qualified name m.W.r is
\* also the name of method r of class W of module m
FileNested ==
  SourceFile(<<"m", "/", "W", ".", "p", "y">>,
    Module(<<
      FunctionDef(<<"r">>, <<>>, <<Expr(Call(Name(<<"h">>), <<>>))>>)
    >>))

Catalogue ==
  {FileMain, FileUtil, FileChains, FileBroken, FileText, FileDups, FileNested}

MaxFiles == 2

\* the listings os.walk can give: distinct files in some order
Folders ==
  {s \in UNION {[1..n -> Catalogue] : n \in 0..MaxFiles} :
     \A i, j \in DOMAIN s : i # j => s[i].path # s[j].path}

----------------------------------------------------------------------------
(* The selected_classes argument *)

NoneSel == [kind |-> "None", items |-> <<>>]
ListSel(items) == [kind |-> "list", items |-> items]
SetSel(items) == [kind |-> "set", items |-> items]

Selections ==
  {NoneSel, ListSel(<<>>), SetSel(<<>>), ListSel(<<<<"W">>>>),
   ListSel(<<<<"W", "B">>>>), SetSel(<<<<"h">>, <<"A">>>>)}

\* a variant testing `selected_classes is not None`
Truthy_is_not_None(sel) == sel.kind # "None"

\* bool(selected_classes)
Truthy(sel) == sel.kind # "None" /\ sel.items # <<>>

\* x in selected_classes
InSel(x, sel) == \E i \in DOMAIN sel.items : sel.items[i] = x

\* any(cls in s for cls in selected_classes)
AnyIn(sel, s) == \E i \in DOMAIN sel.items : Contains(sel.items[i], s)

----------------------------------------------------------------------------
(* parse_folder *)

Main == <<"m", "a", "i", "n">>

Aggregate ==
  [classes |-> all_classes, funcs |-> all_funcs,
   inheritance |-> all_inheritance, edges |-> all_edges,
   func_info |-> all_func_info, modules |-> all_modules]

EmptyAggregate ==
  [classes |-> <<>>, funcs |-> <<>>, inheritance |-> <<>>, edges |-> <<>>,
   func_info |-> <<>>, modules |-> <<>>]

\* analyzer = CodeAnalyzer(module_name); analyzer.visit(tree)
Analyze(file) == visit(CodeAnalyzer(ModuleNameOf(file.path)), file.tree)

\* a variant retaining a class when a selected name occurs in its key
Retained_by_substring(an, sel) == {c \in DOMAIN an.classes : AnyIn(sel, c)}

\* the classes whose short name is selected
Retained(an, sel) == {c \in DOMAIN an.classes : InSel(LastSegment(c), sel)}

filtered_classes(an, sel) == [c \in Retained(an, sel) |-> an.classes[c]]

filtered_modules(an, sel) ==
  [c \in Retained(an, sel) |->
     IF c \in DOMAIN an.modules THEN an.modules[c] ELSE Main]

\* a variant copying only the entries that name a parent
filtered_inheritance_truthy(an, sel) ==
  [c \in {c \in Retained(an, sel) :
            c \in DOMAIN an.inheritance /\ an.inheritance[c] # None} |->
     an.inheritance[c]]

filtered_inheritance(an, sel) ==
  [c \in {c \in Retained(an, sel) : c \in DOMAIN an.inheritance} |->
     an.inheritance[c]]

\* a variant looking the summaries up under the class keys
filtered_func_info_by_class(an, sel) ==
  [c \in {c \in Retained(an, sel) : c \in DOMAIN an.func_info} |->
     an.func_info[c]]

filtered_func_info(an, sel) ==
  [m \in {m \in DOMAIN an.func_info :
            \E c \in Retained(an, sel) :
              \E i \in DOMAIN an.classes[c] : an.classes[c][i] = m} |->
     an.func_info[m]]

\* a variant testing the source of an edge only
filtered_edges_by_source(an, sel) ==
  LET involved(e) == AnyIn(sel, e[1])
  IN SelectSeq(an.edges, involved)

filtered_edges(an, sel) ==
  LET involved(e) == AnyIn(sel, e[1]) \/ AnyIn(sel, e[2])
  IN SelectSeq(an.edges, involved)

filtered_funcs(an, sel) ==
  LET involved(f) == AnyIn(sel, f)
  IN SelectSeq(an.standalone_funcs, involved)

\* the `if selected_classes:` branch
MergeSelected(agg, an, sel) ==
  [classes |-> Update(agg.classes, filtered_classes(an, sel)),
   inheritance |-> Update(agg.inheritance, filtered_inheritance(an, sel)),
   modules |-> Update(agg.modules, filtered_modules(an, sel)),
   func_info |-> Update(agg.func_info, filtered_func_info(an, sel)),
   edges |-> agg.edges \o filtered_edges(an, sel),
   funcs |-> agg.funcs \o filtered_funcs(an, sel)]

\* the `else:` branch
MergeAll(agg, an) ==
  [classes |-> Update(agg.classes, an.classes),
   funcs |-> agg.funcs \o an.standalone_funcs,
   inheritance |-> Update(agg.inheritance, an.inheritance),
   edges |-> agg.edges \o an.edges,
   func_info |-> Update(agg.func_info, an.func_info),
   modules |-> Update(agg.modules, an.modules)]

\* a variant whose failure path starts the aggregate afresh
AfterFile_resetting(agg, file, sel) ==
  IF Raises(file) THEN EmptyAggregate
  ELSE IF Truthy(sel) THEN MergeSelected(agg, Analyze(file), sel)
  ELSE MergeAll(agg, Analyze(file))

\* the aggregate after the try statement has run for one .py file
AfterFile(agg, file, sel) ==
  IF Raises(file) THEN agg
  ELSE IF Truthy(sel) THEN MergeSelected(agg, Analyze(file), sel)
  ELSE MergeAll(agg, Analyze(file))

SetAggregate(agg) ==
  /\ all_classes' = agg.classes
  /\ all_funcs' = agg.funcs
  /\ all_inheritance' = agg.inheritance
  /\ all_edges' = agg.edges
  /\ all_func_info' = agg.func_info
  /\ all_modules' = agg.modules

MaxCalls == 2

Init ==
  /\ folder \in Folders
  /\ pc = "idle"
  /\ selected_classes = NoneSel
  /\ idx = 0
  /\ analyzer = CodeAnalyzer(<<>>)
  /\ all_classes = <<>>
  /\ all_funcs = <<>>
  /\ all_inheritance = <<>>
  /\ all_edges = <<>>
  /\ all_func_info = <<>>
  /\ all_modules = <<>>
  /\ returned = <<>>

\* parse_folder(folder, sel) is entered
Enter(sel) ==
  /\ pc = "idle"
  /\ sel \notin DOMAIN returned
  /\ Cardinality(DOMAIN returned) < MaxCalls
  /\ pc' = "walk"
  /\ selected_classes' = sel
  /\ idx' = 0
  /\ SetAggregate(EmptyAggregate)
  /\ UNCHANGED <<folder, analyzer, returned>>

\* a file that does not end in .py is passed over
SkipFile ==
  /\ pc = "walk"
  /\ idx < Len(folder)
  /\ ~EndsWithPy(folder[idx + 1].path)
  /\ idx' = idx + 1
  /\ UNCHANGED <<folder, pc, selected_classes, analyzer, all_classes,
                 all_funcs, all_inheritance, all_edges, all_func_info,
                 all_modules, returned>>

\* the try body raises; the except clause prints and the loop goes on
ParseFails ==
  /\ pc = "walk"
  /\ idx < Len(folder)
  /\ EndsWithPy(folder[idx + 1].path)
  /\ Raises(folder[idx + 1])
  /\ SetAggregate(AfterFile(Aggregate, folder[idx + 1], selected_classes))
  /\ idx' = idx + 1
  /\ UNCHANGED <<folder, pc, selected_classes, analyzer, returned>>

\* the try body completes: the file is analysed and merged
ParseFile ==
  /\ pc = "walk"
  /\ idx < Len(folder)
  /\ EndsWithPy(folder[idx + 1].path)
  /\ ~Raises(folder[idx + 1])
  /\ analyzer' = Analyze(folder[idx + 1])
  /\ SetAggregate(AfterFile(Aggregate, folder[idx + 1], selected_classes))
  /\ idx' = idx + 1
  /\ UNCHANGED <<folder, pc, selected_classes, returned>>

\* return all_classes, all_funcs, all_inheritance, all_edges, ...
Return ==
  /\ pc = "walk"
  /\ idx = Len(folder)
  /\ returned' = Put(returned, selected_classes, Aggregate)
  /\ pc' = "idle"
  /\ UNCHANGED <<folder, selected_classes, idx, analyzer, all_classes,
                 all_funcs, all_inheritance, all_edges, all_func_info,
                 all_modules>>

Next ==
  \/ \E sel \in Selections : Enter(sel)
  \/ SkipFile
  \/ ParseFails
  \/ ParseFile
  \/ Return

Spec == Init /\ [][Next]_vars

----------------------------------------------------------------------------
(* A second input space: one module t.py holding a function t whose body   *)
(* is a single call statement, next to a text file and a broken file.      *)

ProbeRoots ==
  {Name(<<"s">>), Name(<<"a">>), Call(Name(<<"f">>), <<>>),
   Subscript(Name(<<"x">>), Constant("int", <<"0">>)),
   Constant("str", <<"t">>)}

ProbeAttrs == {<<"a">>, <<"r", "u">>}

MaxChain == 3

\* root.a1.a2...an
RECURSIVE AttrChain(_, _)
AttrChain(root, attrs) ==
  IF attrs = <<>> THEN root
  ELSE Attribute(AttrChain(root, SubSeq(attrs, 1, Len(attrs) - 1)),
                 attrs[Len(attrs)])

ProbeTargets ==
  {AttrChain(r, a) : r \in ProbeRoots,
                     a \in UNION {[1..n -> ProbeAttrs] : n \in 0..MaxChain}}

ProbeFile(target) ==
  SourceFile(<<"t", ".", "p", "y">>,
    Module(<<FunctionDef(<<"t">>, <<>>, <<Expr(Call(target, <<>>))>>)>>))

InitCallee ==
  /\ folder \in {<<FileText, FileBroken, ProbeFile(t)>> : t \in ProbeTargets}
  /\ pc = "idle"
  /\ selected_classes = NoneSel
  /\ idx = 0
  /\ analyzer = CodeAnalyzer(<<>>)
  /\ all_classes = <<>>
  /\ all_funcs = <<>>
  /\ all_inheritance = <<>>
  /\ all_edges = <<>>
  /\ all_func_info = <<>>
  /\ all_modules = <<>>
  /\ returned = <<>>

SpecCallee == InitCallee /\ [][Next]_vars

----------------------------------------------------------------------------
(* Vocabulary of the properties *)

Range(seq) == {seq[i] : i \in DOMAIN seq}

Occurrences(seq, x) == Cardinality({i \in DOMAIN seq : seq[i] = x})

NoDuplicates(seq) == \A i, j \in DOMAIN seq : seq[i] = seq[j] => i = j

\* the files of a listing that are analysed: .py files that parse
Eligible(file) == EndsWithPy(file.path) /\ ~Raises(file)
GoodFiles(files) == SelectSeq(files, Eligible)

\* the selections given to a call that has returned
Called == DOMAIN returned

\* the merge, in order, of files that all parse
RECURSIVE MergeOf(_, _)
MergeOf(files, sel) ==
  IF files = <<>> THEN EmptyAggregate
  ELSE AfterFile(MergeOf(SubSeq(files, 1, Len(files) - 1), sel),
                 files[Len(files)], sel)

\* qualified names of the functions defined outside any class, in order
RECURSIVE FunctionsOutsideClasses(_, _)
FunctionsOutsideClasses(module_name, stmts) ==
  IF stmts = <<>> THEN <<>>
  ELSE LET n == Head(stmts)
           here == IF n.type = "FunctionDef"
                   THEN <<Dotted(module_name, n.name)>>
                   ELSE IF n.type = "If"
                   THEN FunctionsOutsideClasses(module_name, n.body \o n.orelse)
                   ELSE <<>>
       IN here \o FunctionsOutsideClasses(module_name, Tail(stmts))

RECURSIVE StandaloneOf(_)
StandaloneOf(files) ==
  IF files = <<>> THEN <<>>
  ELSE FunctionsOutsideClasses(ModuleNameOf(Head(files).path),
                               Head(files).tree.body)
       \o StandaloneOf(Tail(files))

\* one edge per call with a name or attribute target in the body of each
\* declaration, under the declaration's qualified name; owner is the
\* qualified name of the enclosing class, or None
CallsIn(node) == SelectSeq(Walk(<<node>>), IsEdgeCall)

RECURSIVE DeclaredEdges(_, _, _)
DeclaredEdges(module_name, owner, stmts) ==
  IF stmts = <<>> THEN <<>>
  ELSE LET n == Head(stmts)
           qualified == IF owner = None THEN Dotted(module_name, n.name)
                        ELSE Dotted(owner, n.name)
           here ==
             IF n.type = "FunctionDef"
             THEN [i \in 1..Len(CallsIn(n)) |->
                     <<qualified, Callee(CallsIn(n)[i])>>]
             ELSE IF n.type = "ClassDef"
             THEN DeclaredEdges(module_name, Dotted(module_name, n.name), n.body)
             ELSE IF n.type = "If"
             THEN DeclaredEdges(module_name, owner, n.body \o n.orelse)
             ELSE <<>>
       IN here \o DeclaredEdges(module_name, owner, Tail(stmts))

RECURSIVE EdgesOf(_)
EdgesOf(files) ==
  IF files = <<>> THEN <<>>
  ELSE DeclaredEdges(ModuleNameOf(Head(files).path), None,
                     Head(files).tree.body)
       \o EdgesOf(Tail(files))

----------------------------------------------------------------------------
\* C1: in the model returned without a selection, a function definition is
\* recorded in one place only: the standalone-function list holds exactly
\* the functions defined outside any class, and a method defined in a class
\* body adds no standalone entry.
C1_OnePlacePerFunction ==
  NoneSel \in Called =>
    returned[NoneSel].funcs = StandaloneOf(GoodFiles(folder))

\* C2: in the returned aggregate of an unfiltered run no qualified name
\* occurs twice in the standalone-function list, and no method list names
\* one method twice.
C2_QualifiedNamesUnique ==
  NoneSel \in Called =>
    /\ NoDuplicates(returned[NoneSel].funcs)
    /\ \A c \in DOMAIN returned[NoneSel].classes :
         NoDuplicates(returned[NoneSel].classes[c])

\* C3: in an unfiltered run the edge list holds one edge per call
\* expression of each method or function body, under the qualified name of
\* the enclosing declaration and no other: each pair occurs as often as
\* that declaration's body calls that callee.
C3_OneEdgePerCall ==
  NoneSel \in Called =>
    \A e \in Range(returned[NoneSel].edges) \cup Range(EdgesOf(GoodFiles(folder))) :
      Occurrences(returned[NoneSel].edges, e)
        = Occurrences(EdgesOf(GoodFiles(folder)), e)

----------------------------------------------------------------------------
(* Callee reconstruction, over the probe modules *)

\* the call statement of the probe module's function t, and its target
ProbeCall == folder[Len(folder)].tree.body[1].body[1].value
ProbeTarget == ProbeCall.func

\* the attribute names of a chain, outermost last, and the node it starts at
RECURSIVE ChainAttrs(_)
ChainAttrs(node) ==
  IF node.type = "Attribute" THEN ChainAttrs(node.value) \o <<node.attr>>
  ELSE <<>>

RECURSIVE ChainRoot(_)
ChainRoot(node) ==
  IF node.type = "Attribute" THEN ChainRoot(node.value) ELSE node

\* every segment of a chain down to its root name, the final attribute last
Segments(node) ==
  (IF ChainRoot(node).type = "Name" THEN <<ChainRoot(node).id>> ELSE <<>>)
    \o ChainAttrs(node)

\* the same, with "unknown" standing for a root that is no name
SegmentsOrUnknown(node) ==
  <<IF ChainRoot(node).type = "Name" THEN ChainRoot(node).id ELSE Unknown>>
    \o ChainAttrs(node)

\* the calls of the probe function that have a name or attribute target
TargetedCalls ==
  {i \in DOMAIN Walk(<<ProbeCall>>) :
     /\ Walk(<<ProbeCall>>)[i].type = "Call"
     /\ Walk(<<ProbeCall>>)[i].func.type \in {"Name", "Attribute"}}

\* the callee recorded for the probe call: the first edge of the walk
RecordedCallee == returned[NoneSel].edges[1][2]

\* C4 as stated: a chained attribute call records the dot-joined segments
\* of the chain down to its root name and the final attribute; an attribute
\* call on any other non-name receiver records the bare attribute; a call
\* whose target is neither a name nor an attribute records no edge.
C4_CalleeAsStated ==
  NoneSel \in Called =>
    /\ Len(returned[NoneSel].edges) = Cardinality(TargetedCalls)
    /\ (ProbeTarget.type = "Attribute" /\ ProbeTarget.value.type = "Attribute")
         => RecordedCallee = Join(Segments(ProbeTarget), <<Dot>>)
    /\ (ProbeTarget.type = "Attribute"
          /\ ProbeTarget.value.type \notin {"Name", "Attribute"})
         => RecordedCallee = ProbeTarget.attr

\* C4 amended: the same, where a chain that does not start at a plain name
\* (it starts at a call result, a subscript or a literal) records the
\* segment "unknown" in the place of its root.
C4_CalleeOfChain ==
  NoneSel \in Called =>
    /\ Len(returned[NoneSel].edges) = Cardinality(TargetedCalls)
    /\ (ProbeTarget.type = "Attribute" /\ ProbeTarget.value.type = "Attribute")
         => RecordedCallee = Join(SegmentsOrUnknown(ProbeTarget), <<Dot>>)
    /\ (ProbeTarget.type = "Attribute"
          /\ ProbeTarget.value.type \notin {"Name", "Attribute"})
         => RecordedCallee = ProbeTarget.attr

\* a call s.a.ru.a(...) has returned the callee "s.a.ru.a"
C4_Witness ==
  /\ NoneSel \in Called
  /\ ProbeTarget = AttrChain(Name(<<"s">>), <<<<"a">>, <<"r", "u">>, <<"a">>>>)
  /\ returned[NoneSel].edges =
       <<<< <<"t", ".", "t">>, <<"s", ".", "a", ".", "r", "u", ".", "a">> >>>>

----------------------------------------------------------------------------
(* The selection filter, over pairs of calls on one folder *)

\* the calls made with a non-empty selection once the unfiltered call and
\* that call have both returned
FilteredCalls == {S \in Called : Truthy(S) /\ NoneSel \in Called}

\* some member of S is a substring of s
Mentions(S, s) == \E n \in Range(S.items) : Contains(n, s)

\* C5: the edge list returned for a non-empty selection S is the
\* order-preserving subsequence of the unfiltered edge list made of the
\* edges whose source or destination contains a member of S as a substring.
C5_EdgesAreMentioningSubsequence ==
  \A S \in FilteredCalls :
    LET mentioned(e) == Mentions(S, e[1]) \/ Mentions(S, e[2])
    IN returned[S].edges = SelectSeq(returned[NoneSel].edges, mentioned)

\* with S = ["W"] over main.py then v.py: the edges of WB.r are kept by the
\* substring W, the edges recorded under m.r and v.k are dropped
C5_Witness ==
  /\ folder = <<FileMain, FileChains>>
  /\ ListSel(<<<<"W">>>>) \in FilteredCalls
  /\ returned[ListSel(<<<<"W">>>>)].edges =
       << << <<"m", ".", "W", ".", "r">>, <<"h">> >>,
          << <<"m", ".", "W", ".", "r">>, <<"s", ".", "u", ".", "h">> >>,
          << <<"v", ".", "W", "B", ".", "r">>, <<"g">> >>,
          << <<"v", ".", "W", "B", ".", "r">>, <<"g">> >> >>
  /\ Len(returned[NoneSel].edges) = 13

\* C6: the class map returned for a non-empty selection S is the unfiltered
\* class map restricted to the keys whose final dotted segment is a member
\* of S, each retained class with its whole ordered method list and, for
\* each of its methods, the summary the analyzer recorded for it.
C6_ClassesRestrictedByShortName ==
  \A S \in FilteredCalls :
    /\ DOMAIN returned[S].classes =
         {c \in DOMAIN returned[NoneSel].classes :
            LastSegment(c) \in Range(S.items)}
    /\ \A c \in DOMAIN returned[S].classes :
         /\ returned[S].classes[c] = returned[NoneSel].classes[c]
         /\ \A m \in Range(returned[S].classes[c]) :
              /\ m \in DOMAIN returned[S].func_info
              /\ \E f \in Range(GoodFiles(folder)) :
                   /\ c \in DOMAIN Analyze(f).classes
                   /\ returned[S].func_info[m] = Analyze(f).func_info[m]

\* with S = ["W"] over main.py and v.py, class m.W is retained with its
\* method and class v.WB, whose name only contains W, is not
C6_Witness ==
  /\ ListSel(<<<<"W">>>>) \in FilteredCalls
  /\ DOMAIN returned[NoneSel].classes =
       {<<"m", ".", "W">>, <<"v", ".", "W", "B">>}
  /\ returned[ListSel(<<<<"W">>>>)].classes =
       (<<"m", ".", "W">> :> << <<"m", ".", "W", ".", "r">> >>)

\* C7: a call with an empty list or an empty set as the selection returns
\* what the call with None returns for the same folder: the whole aggregate.
C7_EmptySelectionIsIdentity ==
  \A S \in Called :
    (S.items = <<>> /\ NoneSel \in Called) => returned[S] = returned[NoneSel]

\* the calls with None and with [] have both returned, with classes,
\* functions and edges in the aggregate
C7_Witness ==
  /\ NoneSel \in Called
  /\ ListSel(<<>>) \in Called
  /\ returned[ListSel(<<>>)].classes # <<>>
  /\ returned[ListSel(<<>>)].funcs # <<>>
  /\ returned[ListSel(<<>>)].edges # <<>>

\* C8: a file whose reading or parsing fails leaves the aggregate as it
\* was and the walk goes on: at each point of the walk the aggregate is the
\* merge of the files attempted so far that did not fail, and what a call
\* returns is the merge of all the files of the folder that did not fail.
C8_FailedFileContributesNothing ==
  /\ pc = "walk" =>
       Aggregate = MergeOf(GoodFiles(SubSeq(folder, 1, idx)), selected_classes)
  /\ \A S \in Called : returned[S] = MergeOf(GoodFiles(folder), S)

\* main.py was merged, b.py then failed, and the call returned main.py's
\* class
C8_Witness ==
  /\ folder = <<FileMain, FileBroken>>
  /\ NoneSel \in Called
  /\ DOMAIN returned[NoneSel].classes = {<<"m", ".", "W">>}

\* C9: in every returned model the inheritance map has the keys of the
\* class map, with the parents the unfiltered run records: a retained class
\* without bases keeps its entry, mapped to None, and a class that is not
\* retained has none.
C9_InheritanceKeysAreClassKeys ==
  \A S \in Called :
    /\ DOMAIN returned[S].inheritance = DOMAIN returned[S].classes
    /\ NoneSel \in Called =>
         \A c \in DOMAIN returned[S].inheritance :
           returned[S].inheritance[c] = returned[NoneSel].inheritance[c]

\* with S = ["W"] over main.py and v.py the base-less class m.W is retained
\* with the entry None and v.WB, which has a parent, has no entry
C9_Witness ==
  /\ ListSel(<<<<"W">>>>) \in FilteredCalls
  /\ returned[ListSel(<<<<"W">>>>)].inheritance = (<<"m", ".", "W">> :> None)
  /\ <<"v", ".", "W", "B">> \in DOMAIN returned[NoneSel].inheritance

\* C10 as stated: in every returned model the summary map has an entry for
\* every class key, every method of a method list and every name of the
\* standalone-function list.
C10_SummaryForEveryDeclaration ==
  \A S \in Called :
    /\ \A c \in DOMAIN returned[S].classes :
         /\ c \in DOMAIN returned[S].func_info
         /\ \A m \in Range(returned[S].classes[c]) :
              m \in DOMAIN returned[S].func_info
    /\ \A f \in Range(returned[S].funcs) : f \in DOMAIN returned[S].func_info

\* C10 amended: in every returned model the summary map has an entry for
\* every method of a method list and, when the selection is empty or
\* absent, for every name of the standalone-function list.
C10_SummaryForEveryFunction ==
  \A S \in Called :
    /\ \A c \in DOMAIN returned[S].classes :
         \A m \in Range(returned[S].classes[c]) :
           m \in DOMAIN returned[S].func_info
    /\ ~Truthy(S) =>
         \A f \in Range(returned[S].funcs) : f \in DOMAIN returned[S].func_info

\* with S = ["W"] over main.py the retained method m.W.r has its summary,
\* and the unfiltered call has one for the function u.h of util.py
C10_Witness ==
  /\ folder = <<FileMain, FileUtil>>
  /\ ListSel(<<<<"W">>>>) \in FilteredCalls
  /\ <<"m", ".", "W", ".", "r">> \in DOMAIN returned[ListSel(<<<<"W">>>>)].func_info
  /\ <<"u", ".", "h">> \in DOMAIN returned[NoneSel].func_info

====
